---- MODULE Spec2Model ----
(***************************************************************************)
(* Status wrappers of response::status (Created, Accepted, NoContent,      *)
(* Reset, Custom) and the way their respond() composes with a nested       *)
(* Responder.  A request is a chain of wrappers around a terminal          *)
(* responder; respond() of the outermost wrapper is executed call by call  *)
(* and return by return on an explicit stack of frames.                    *)
(***************************************************************************)
EXTENDS Integers, Sequences, FiniteSets

\* Longest chain of wrappers nested inside one another.
MaxDepth == 3

(***************************************************************************)
(* Option and Result                                                       *)
(***************************************************************************)
None == <<>>
Some(x) == <<x>>
Unwrap(o) == o[1]

Ok(resp) == [tag |-> "Ok", resp |-> resp]
Err(status) == [tag |-> "Err", status |-> status]
IsOk(r) == r.tag = "Ok"
IsErr(r) == r.tag = "Err"

(***************************************************************************)
(* http::Status values used by the wrappers                                *)
(***************************************************************************)
StatusCreated == 201
StatusAccepted == 202
StatusNoContent == 204
StatusResetContent == 205

(***************************************************************************)
(* Response and its builder                                                *)
(***************************************************************************)
Header(name, value) == [name |-> name, value |-> value]

HasHeader(hs, name) == \E i \in 1..Len(hs) : hs[i].name = name
HeaderValues(hs, name) == {hs[i].value : i \in {j \in 1..Len(hs) : hs[j].name = name}}
RemoveHeader(hs, name) == SelectSeq(hs, LAMBDA h : h.name # name)

\* Response::build(): no status, no headers, no body.
ResponseBuild == [status |-> None, headers |-> <<>>, body |-> None]

\* Response::build_from(other): a builder holding other's status, headers, body.
BuildFrom(other) == [status |-> other.status, headers |-> other.headers, body |-> other.body]

\* builder.merge(other): other's headers replace same-named ones, other's body
\* is taken over, the status is left alone.
Merge(b, other) ==
    [status |-> b.status,
     headers |-> SelectSeq(b.headers, LAMBDA h : ~HasHeader(other.headers, h.name))
                    \o other.headers,
     body |-> IF other.body # None THEN other.body ELSE b.body]

\* builder.status(s)
SetStatus(b, s) == [b EXCEPT !.status = Some(s)]

\* builder.header(h): replaces every header of that name.
SetHeader(b, h) == [b EXCEPT !.headers = Append(RemoveHeader(@, h.name), h)]

\* builder.ok()
BuilderOk(b) == Ok(b)

(***************************************************************************)
(* Headers and hashing                                                     *)
(***************************************************************************)
Digit(d) ==
    CASE d = 0 -> "0" [] d = 1 -> "1" [] d = 2 -> "2" [] d = 3 -> "3" [] d = 4 -> "4"
      [] d = 5 -> "5" [] d = 6 -> "6" [] d = 7 -> "7" [] d = 8 -> "8" [] d = 9 -> "9"

RECURSIVE ToString(_)
\* u64::to_string(): decimal digits, most significant first.
ToString(n) == IF n < 10 THEN Digit(n) ELSE ToString(n \div 10) \o Digit(n % 10)

\* DefaultHasher::default(): fixed keys, nothing written yet.
DefaultHasherDefault == <<>>

\* responder.hash(&mut hasher): the value writes its content into the hasher.
HashWrite(hasher, content) == Append(hasher, content)

RECURSIVE MixFrom(_, _, _)
MixFrom(hasher, i, acc) ==
    IF i > Len(hasher) THEN acc
    ELSE MixFrom(hasher, i + 1, (acc * 31 + hasher[i] + 7) % 1000)

\* hasher.finish(): a deterministic function of what was written.
HasherFinish(hasher) == MixFrom(hasher, 1, 17)

\* header::EntityTag::strong(tag) / weak(tag), as the header value text.
EntityTagStrong(tag) == "\"" \o tag \o "\""
EntityTagWeak(tag) == "W/\"" \o tag \o "\""

ETag(entityTag) == Header("ETag", entityTag)
Location(loc) == Header("Location", loc)

(***************************************************************************)
(* respond() of the wrappers, as functions of the nested result            *)
(***************************************************************************)
\* Created (default impl), line 47.
CreatedFinish(build, loc) ==
    BuilderOk(SetHeader(SetStatus(build, StatusCreated), Location(loc)))

\* Faulty variants of CreatedAfter: the failure of the nested responder is
\* replaced by a failure of the wrapper's own; the Location header is set before
\* the merge; the nested response is not merged.
CreatedAfterMasksFailure(build, r, loc) ==
    IF IsErr(r) THEN Err(500)
    ELSE CreatedFinish(Merge(build, r.resp), loc)

CreatedAfterHeadersFirst(build, r, loc) ==
    IF IsErr(r) THEN r
    ELSE BuilderOk(SetStatus(Merge(SetHeader(build, Location(loc)), r.resp), StatusCreated))

CreatedAfterNoMerge(build, r, loc) ==
    IF IsErr(r) THEN r
    ELSE CreatedFinish(build, loc)

\* Created (default impl), lines 44-47: r is the result of responder.respond().
CreatedAfter(build, r, loc) ==
    IF IsErr(r) THEN r
    ELSE CreatedFinish(Merge(build, r.resp), loc)

\* Faulty variant of CreatedHashFinish: the Location header is forgotten.
CreatedHashFinishNoLocation(build, loc) ==
    BuilderOk(SetStatus(build, StatusCreated))

\* Created (Hash impl), line 67.
CreatedHashFinish(build, loc) ==
    BuilderOk(SetHeader(SetStatus(build, StatusCreated), Location(loc)))

\* Created (Hash impl), lines 60-61: the digest of the nested value, as text.
ComputeHash(hasher, content) == ToString(HasherFinish(HashWrite(hasher, content)))

\* Faulty variant of CreatedHashEnter: the nested value is not asked for its
\* hash before its respond() is called.
CreatedHashEnterNoHash(content, calls) ==
    [frame |-> [variant |-> "CreatedHash",
                build |-> ResponseBuild,
                hash |-> ComputeHash(DefaultHasherDefault, content)],
     calls |-> calls]

\* Created (Hash impl), lines 57-61: the locals before responder.respond() is
\* called, and the calls the nested value has received so far.
CreatedHashEnter(content, calls) ==
    [frame |-> [variant |-> "CreatedHash",
                build |-> ResponseBuild,
                hash |-> ComputeHash(DefaultHasherDefault, content)],
     calls |-> Append(calls, "hash")]

\* Faulty variant of CreatedHashAfter: the tag is derived from the wrapper
\* (Location included) instead of the nested value alone.
CreatedHashAfterTagsLocation(build, hash, r, loc) ==
    IF IsErr(r) THEN r
    ELSE CreatedHashFinish(
             SetHeader(Merge(build, r.resp), ETag(EntityTagStrong(hash \o loc))), loc)

\* Created (Hash impl), lines 63-67.
CreatedHashAfter(build, hash, r, loc) ==
    IF IsErr(r) THEN r
    ELSE CreatedHashFinish(
             SetHeader(Merge(build, r.resp), ETag(EntityTagStrong(hash))), loc)

\* Accepted, line 104.
AcceptedFinish(build) == BuilderOk(SetStatus(build, StatusAccepted))

\* Faulty variants of AcceptedAfter: a failure of the nested responder is
\* swallowed; the nested response is not merged.
AcceptedAfterSwallowsFailure(build, r) ==
    IF IsErr(r) THEN AcceptedFinish(build)
    ELSE AcceptedFinish(Merge(build, r.resp))

AcceptedAfterNoMerge(build, r) ==
    IF IsErr(r) THEN r
    ELSE AcceptedFinish(build)

\* Accepted, lines 101-104.
AcceptedAfter(build, r) ==
    IF IsErr(r) THEN r
    ELSE AcceptedFinish(Merge(build, r.resp))

\* Faulty variant of NoContentRespond: the status is not set.
NoContentRespondNoStatus == BuilderOk(ResponseBuild)

\* NoContent::respond
NoContentRespond == BuilderOk(SetStatus(ResponseBuild, StatusNoContent))

\* Reset::respond
ResetRespond == BuilderOk(SetStatus(ResponseBuild, StatusResetContent))

\* Faulty variant of CustomAfter: the status of the nested response is kept.
CustomAfterKeepsStatus(status, r) ==
    IF IsErr(r) THEN r
    ELSE BuilderOk(BuildFrom(r.resp))

\* Custom::respond, lines 164-166.
CustomAfter(status, r) ==
    IF IsErr(r) THEN r
    ELSE BuilderOk(SetStatus(BuildFrom(r.resp), status))

(***************************************************************************)
(* Requests: a chain of wrappers, outermost first, around a terminal       *)
(***************************************************************************)
Locations == {"/a", "/b"}
CustomStatuses == {418}
Contents == {1, 2}

Layers ==
    {[kind |-> "Created", loc |-> l] : l \in Locations}
      \cup {[kind |-> "Accepted"]}
      \cup {[kind |-> "Custom", status |-> s] : s \in CustomStatuses}

\* A terminal is a leaf responder (hashable or not), NoContent, Reset, or the
\* absent responder (None) of a Created<R> / Accepted<R>, R hashable or not.
Terms ==
    {[kind |-> "leaf", content |-> c, hashable |-> h] : c \in Contents, h \in BOOLEAN}
      \cup {[kind |-> k, content |-> 0, hashable |-> FALSE] : k \in {"NoContent", "Reset"}}
      \cup {[kind |-> "none", content |-> 0, hashable |-> h] : h \in BOOLEAN}

Chains == UNION {[1..n -> Layers] : n \in 0..MaxDepth}

WellFormed(ls, t) ==
    t.kind = "none" =>
        /\ Len(ls) > 0
        /\ ls[Len(ls)].kind \in {"Created", "Accepted"}
        /\ (ls[Len(ls)].kind = "Accepted" => ~t.hashable)

\* What a leaf responder may return: a failing Status, or a Response of its own.
LeafHeaders ==
    {<<>>,
     <<Header("Location", "/nested"), Header("X-Custom", "v"),
       Header("ETag", EntityTagWeak("nested"))>>}
LeafOutcomes ==
    {Err(f) : f \in {404, 500}}
      \cup {Ok([status |-> Some(s), headers |-> hs, body |-> b]) :
              s \in {200, 202}, hs \in LeafHeaders, b \in {None, Some("body")}}

(***************************************************************************)
(* State                                                                   *)
(***************************************************************************)
VARIABLES
    phase,   \* "idle", "running" or "done"
    layers,  \* the wrappers of the request being answered, outermost first
    term,    \* its terminal responder
    frames,  \* one frame per wrapper whose respond() is waiting for its nested one
    ret,     \* the value the last finished respond() returned, if not yet used
    inner,   \* what the terminal responder's respond() returned, once it ran
    calls,   \* the calls the terminal value has received: "hash", "respond"
    etags    \* per content, the <<Location text, ETag value>> pairs the Hash impl
             \* of Created has emitted so far

vars == <<phase, layers, term, frames, ret, inner, calls, etags>>

Init ==
    /\ phase = "idle"
    /\ layers = <<>>
    /\ term = [kind |-> "NoContent", content |-> 0, hashable |-> FALSE]
    /\ frames = <<>>
    /\ ret = None
    /\ inner = None
    /\ calls = <<>>
    /\ etags = [c \in Contents |-> {}]

\* The wrapper whose respond() is called next, and whether it has a nested value.
NextLayer == Len(frames) + 1
Calling == phase = "running" /\ ret = None /\ NextLayer <= Len(layers)
NestedPresent(n) == ~(n = Len(layers) /\ term.kind = "none")
\* Specialization: the Hash impl applies when the nested type is hashable.
Specialized(n) == n = Len(layers) /\ term.hashable

Returning == phase = "running" /\ ret # None /\ frames # <<>>
Top == frames[Len(frames)]
Pop == SubSeq(frames, 1, Len(frames) - 1)

\* A handler returns a responder.
Dispatch ==
    /\ phase = "idle"
    /\ \E ls \in Chains, t \in Terms :
        /\ WellFormed(ls, t)
        /\ layers' = ls
        /\ term' = t
    /\ phase' = "running"
    /\ frames' = <<>>
    /\ ret' = None
    /\ inner' = None
    /\ calls' = <<>>
    /\ UNCHANGED etags

CreatedCall ==
    /\ Calling
    /\ layers[NextLayer].kind = "Created"
    /\ ~Specialized(NextLayer)
    /\ IF NestedPresent(NextLayer)
         THEN /\ frames' = Append(frames, [variant |-> "Created", build |-> ResponseBuild])
              /\ UNCHANGED ret
         ELSE /\ ret' = Some(CreatedFinish(ResponseBuild, layers[NextLayer].loc))
              /\ UNCHANGED frames
    /\ UNCHANGED <<phase, layers, term, inner, calls, etags>>

CreatedReturn ==
    /\ Returning
    /\ Top.variant = "Created"
    /\ ret' = Some(CreatedAfter(Top.build, Unwrap(ret), layers[Len(frames)].loc))
    /\ frames' = Pop
    /\ UNCHANGED <<phase, layers, term, inner, calls, etags>>

CreatedHashCall ==
    /\ Calling
    /\ layers[NextLayer].kind = "Created"
    /\ Specialized(NextLayer)
    /\ IF NestedPresent(NextLayer)
         THEN LET e == CreatedHashEnter(term.content, calls) IN
              /\ frames' = Append(frames, e.frame)
              /\ calls' = e.calls
              /\ UNCHANGED ret
         ELSE /\ ret' = Some(CreatedHashFinish(ResponseBuild, layers[NextLayer].loc))
              /\ UNCHANGED <<frames, calls>>
    /\ UNCHANGED <<phase, layers, term, inner, etags>>

CreatedHashReturn ==
    /\ Returning
    /\ Top.variant = "CreatedHash"
    /\ LET out == CreatedHashAfter(Top.build, Top.hash, Unwrap(ret), layers[Len(frames)].loc) IN
        /\ ret' = Some(out)
        /\ etags' = IF IsOk(out)
                      THEN [etags EXCEPT ![term.content] =
                                @ \cup {<<layers[Len(frames)].loc, v>> :
                                           v \in HeaderValues(out.resp.headers, "ETag")}]
                      ELSE etags
    /\ frames' = Pop
    /\ UNCHANGED <<phase, layers, term, inner, calls>>

AcceptedCall ==
    /\ Calling
    /\ layers[NextLayer].kind = "Accepted"
    /\ IF NestedPresent(NextLayer)
         THEN /\ frames' = Append(frames, [variant |-> "Accepted", build |-> ResponseBuild])
              /\ UNCHANGED ret
         ELSE /\ ret' = Some(AcceptedFinish(ResponseBuild))
              /\ UNCHANGED frames
    /\ UNCHANGED <<phase, layers, term, inner, calls, etags>>

AcceptedReturn ==
    /\ Returning
    /\ Top.variant = "Accepted"
    /\ ret' = Some(AcceptedAfter(Top.build, Unwrap(ret)))
    /\ frames' = Pop
    /\ UNCHANGED <<phase, layers, term, inner, calls, etags>>

CustomCall ==
    /\ Calling
    /\ layers[NextLayer].kind = "Custom"
    /\ frames' = Append(frames, [variant |-> "Custom"])
    /\ UNCHANGED <<phase, layers, term, ret, inner, calls, etags>>

CustomReturn ==
    /\ Returning
    /\ Top.variant = "Custom"
    /\ ret' = Some(CustomAfter(layers[Len(frames)].status, Unwrap(ret)))
    /\ frames' = Pop
    /\ UNCHANGED <<phase, layers, term, inner, calls, etags>>

\* The terminal responder is reached once every wrapper has called its nested one.
AtTerminal == phase = "running" /\ ret = None /\ Len(frames) = Len(layers)

LeafRespond ==
    /\ AtTerminal
    /\ term.kind = "leaf"
    /\ \E out \in LeafOutcomes :
        /\ ret' = Some(out)
        /\ inner' = Some(out)
    /\ calls' = Append(calls, "respond")
    /\ UNCHANGED <<phase, layers, term, frames, etags>>

NoContentCall ==
    /\ AtTerminal
    /\ term.kind = "NoContent"
    /\ ret' = Some(NoContentRespond)
    /\ inner' = Some(NoContentRespond)
    /\ UNCHANGED <<phase, layers, term, frames, calls, etags>>

ResetCall ==
    /\ AtTerminal
    /\ term.kind = "Reset"
    /\ ret' = Some(ResetRespond)
    /\ inner' = Some(ResetRespond)
    /\ UNCHANGED <<phase, layers, term, frames, calls, etags>>

\* The outermost respond() has returned: ret is the outcome of the request.
Complete ==
    /\ phase = "running"
    /\ ret # None
    /\ frames = <<>>
    /\ phase' = "done"
    /\ UNCHANGED <<layers, term, frames, ret, inner, calls, etags>>

\* The outcome has been handed over; the next request may be answered.
Reply ==
    /\ phase = "done"
    /\ phase' = "idle"
    /\ layers' = <<>>
    /\ term' = [kind |-> "NoContent", content |-> 0, hashable |-> FALSE]
    /\ ret' = None
    /\ inner' = None
    /\ calls' = <<>>
    /\ UNCHANGED <<frames, etags>>

Next ==
    \/ Dispatch
    \/ CreatedCall
    \/ CreatedReturn
    \/ CreatedHashCall
    \/ CreatedHashReturn
    \/ AcceptedCall
    \/ AcceptedReturn
    \/ CustomCall
    \/ CustomReturn
    \/ LeafRespond
    \/ NoContentCall
    \/ ResetCall
    \/ Complete
    \/ Reply

Spec == Init /\ [][Next]_vars

TypeOK ==
    /\ phase \in {"idle", "running", "done"}
    /\ Len(frames) <= Len(layers)
    /\ Len(layers) <= MaxDepth
(***************************************************************************)
(* Properties                                                              *)
(***************************************************************************)
\* The status a wrapper is meant to give its Response.
Designated(l) ==
    CASE l.kind = "Created" -> 201
      [] l.kind = "Accepted" -> 202
      [] l.kind = "Custom" -> l.status

\* ret holds what the respond() of wrapper number Len(frames) + 1 returned.
WrapperReturned == ret # None /\ Len(frames) < Len(layers)
Returned == Unwrap(ret)
InnerOk == inner # None /\ IsOk(Unwrap(inner))
InnerErr == inner # None /\ IsErr(Unwrap(inner))
CountOf(hs, name) == Cardinality({i \in 1..Len(hs) : hs[i].name = name})
Others(hs) == SelectSeq(hs, LAMBDA h : h.name \notin {"Location", "ETag"})
\* The wrapper directly around the terminal is a Created, and it has returned.
LastCreatedReturned ==
    /\ ret # None
    /\ Len(layers) > 0
    /\ Len(frames) = Len(layers) - 1
    /\ layers[Len(layers)].kind = "Created"
DigestTag(content) == "\"" \o ToString(HasherFinish(<<content>>)) \o "\""

\* C1: whenever the nested responder succeeds, with whatever status, a
\* wrapper's respond() succeeds with the wrapper's designated status (201,
\* 202, the supplied S; 204 and 205 for NoContent and Reset).
C1_WrapperStatusOverrides ==
    /\ (WrapperReturned /\ InnerOk) =>
           /\ IsOk(Returned)
           /\ Returned.resp.status = Some(Designated(layers[Len(frames) + 1]))
    /\ (inner # None /\ term.kind = "NoContent") =>
           IsOk(Unwrap(inner)) /\ Unwrap(inner).resp.status = Some(204)
    /\ (inner # None /\ term.kind = "Reset") =>
           IsOk(Unwrap(inner)) /\ Unwrap(inner).resp.status = Some(205)

C1_Witness ==
    /\ phase = "done"
    /\ layers = <<[kind |-> "Custom", status |-> 418]>>
    /\ InnerOk
    /\ Unwrap(inner).resp.status = Some(200)
    /\ IsOk(Returned)
    /\ Returned.resp.status = Some(418)

\* C2: when the nested responder fails with status F, the respond() of
\* Created, Accepted and Custom returns the failure F itself and no Response.
C2_FailurePropagates ==
    (WrapperReturned /\ InnerErr) => Returned = Err(Unwrap(inner).status)

C2_Witness ==
    /\ phase = "done"
    /\ layers = <<[kind |-> "Created", loc |-> "/a"]>>
    /\ term.kind = "leaf"
    /\ term.hashable
    /\ inner = Some(Err(404))
    /\ ret = Some(Err(404))

\* C3: the outcome of the outermost respond() of a chain of wrappers is the
\* failure of the innermost failing responder if there is one, and otherwise a
\* Response with the outermost wrapper's status.
C3_ChainOutcome ==
    (phase = "done" /\ Len(layers) > 0) =>
        IF InnerErr
          THEN ret = inner
          ELSE IsOk(Returned) /\ Returned.resp.status = Some(Designated(layers[1]))

C3_Witness ==
    /\ phase = "done"
    /\ Len(layers) = 3
    /\ layers[1] = [kind |-> "Custom", status |-> 418]
    /\ layers[2].kind = "Accepted"
    /\ layers[3].kind = "Created"
    /\ inner = Some(Err(500))
    /\ ret = Some(Err(500))

\* C4: Created(loc, None) responds, in the plain and in the Hash impl, with
\* status 201, the Location header loc, no ETag and no body.
C4_CreatedWithoutResponder ==
    (LastCreatedReturned /\ term.kind = "none") =>
        Returned = Ok([status |-> Some(201),
                       headers |-> <<[name |-> "Location",
                                      value |-> layers[Len(layers)].loc]>>,
                       body |-> None])

C4_Witness ==
    /\ phase = "done"
    /\ layers = <<[kind |-> "Created", loc |-> "/b"]>>
    /\ term.kind = "none"
    /\ term.hashable
    /\ IsOk(Returned)
    /\ ~HasHeader(Returned.resp.headers, "ETag")

\* C5: the Hash impl of Created gives its Response the strong entity tag of
\* the digest of the nested value, and Created instances around content-equal
\* values emit the same ETag whatever their Location and nested response.
C5_ETagFromContent ==
    /\ (LastCreatedReturned /\ term.kind = "leaf" /\ term.hashable /\ IsOk(Returned)) =>
           HeaderValues(Returned.resp.headers, "ETag") = {DigestTag(term.content)}
    /\ \A c \in Contents : \A p, q \in etags[c] : p[2] = q[2]

C5_Witness ==
    /\ phase = "done"
    /\ LastCreatedReturned
    /\ term.kind = "leaf"
    /\ term.hashable
    /\ IsOk(Returned)
    /\ \E p, q \in etags[term.content] : p[1] # q[1]

\* C6: the nested response is merged before Created adds its own headers: the
\* final Response has exactly one Location header, the wrapper's, and in the
\* Hash impl exactly one ETag header, the digest's, also when the nested
\* response carried headers of those names.
C6_WrapperHeadersWin ==
    /\ (WrapperReturned /\ layers[Len(frames) + 1].kind = "Created" /\ IsOk(Returned)) =>
           /\ HeaderValues(Returned.resp.headers, "Location") = {layers[Len(frames) + 1].loc}
           /\ CountOf(Returned.resp.headers, "Location") = 1
    /\ (LastCreatedReturned /\ term.kind = "leaf" /\ term.hashable /\ IsOk(Returned)) =>
           /\ CountOf(Returned.resp.headers, "ETag") = 1
           /\ \A v \in HeaderValues(Returned.resp.headers, "ETag") :
                  v \notin HeaderValues(Unwrap(inner).resp.headers, "ETag")

C6_Witness ==
    /\ phase = "done"
    /\ layers = <<[kind |-> "Created", loc |-> "/a"]>>
    /\ term.kind = "leaf"
    /\ term.hashable
    /\ InnerOk
    /\ HeaderValues(Unwrap(inner).resp.headers, "Location") = {"/nested"}
    /\ HasHeader(Unwrap(inner).resp.headers, "ETag")
    /\ HeaderValues(Returned.resp.headers, "Location") = {"/a"}

\* C7: NoContent and Reset always respond successfully, with status 204 and
\* 205, no header and no body.
C7_NoContentAndReset ==
    /\ (inner # None /\ term.kind = "NoContent") =>
           Unwrap(inner) = Ok([status |-> Some(204), headers |-> <<>>, body |-> None])
    /\ (inner # None /\ term.kind = "Reset") =>
           Unwrap(inner) = Ok([status |-> Some(205), headers |-> <<>>, body |-> None])

C7_Witness ==
    /\ phase = "done"
    /\ layers = <<>>
    /\ term.kind = "Reset"
    /\ ret = Some(Ok([status |-> Some(205), headers |-> <<>>, body |-> None]))

\* A step in which the plain impl of Created returns, its nested responder
\* having responded successfully.
PlainCreatedReturns == Returning /\ Top.variant = "Created" /\ IsOk(Returned)

\* C8 as stated: the plain impl of Created, around a responder that responds
\* successfully, yields status 201, its Location, the nested headers and body,
\* and no ETag header, for every nested response.
C8_NoETagAtAll ==
    [][PlainCreatedReturns =>
          /\ IsOk(Unwrap(ret'))
          /\ Unwrap(ret').resp.status = Some(201)
          /\ HeaderValues(Unwrap(ret').resp.headers, "Location") = {layers[Len(frames)].loc}
          /\ Others(Unwrap(ret').resp.headers) = Others(Returned.resp.headers)
          /\ Unwrap(ret').resp.body = Returned.resp.body
          /\ ~HasHeader(Unwrap(ret').resp.headers, "ETag")]_vars

\* C8 amended: the plain impl of Created adds no ETag header of its own: the
\* ETag headers of the result are those of the nested response, the other
\* nested headers except Location and the nested body are kept, the status is
\* 201 and the only Location header is the wrapper's.
C8_NoETagAdded ==
    [][PlainCreatedReturns =>
          /\ IsOk(Unwrap(ret'))
          /\ Unwrap(ret').resp.status = Some(201)
          /\ HeaderValues(Unwrap(ret').resp.headers, "Location") = {layers[Len(frames)].loc}
          /\ CountOf(Unwrap(ret').resp.headers, "Location") = 1
          /\ RemoveHeader(Unwrap(ret').resp.headers, "Location")
                = RemoveHeader(Returned.resp.headers, "Location")
          /\ Unwrap(ret').resp.body = Returned.resp.body]_vars

C8_Witness ==
    /\ phase = "done"
    /\ layers = <<[kind |-> "Created", loc |-> "/a"]>>
    /\ term.kind = "leaf"
    /\ ~term.hashable
    /\ InnerOk
    /\ HasHeader(Unwrap(inner).resp.headers, "ETag")
    /\ HeaderValues(Returned.resp.headers, "ETag")
          = HeaderValues(Unwrap(inner).resp.headers, "ETag")
    /\ Returned.resp.body = Some("body")

\* C9: around a responder that responds successfully, Accepted and Custom
\* change nothing but the status (headers and body are the nested ones), and
\* Created keeps every nested header not named Location or ETag, and the body.
C9_NestedHeadersAndBodyKept ==
    [][(Returning /\ IsOk(Returned)) =>
          /\ IsOk(Unwrap(ret'))
          /\ Unwrap(ret').resp.body = Returned.resp.body
          /\ IF Top.variant \in {"Accepted", "Custom"}
               THEN Unwrap(ret').resp.headers = Returned.resp.headers
               ELSE Others(Unwrap(ret').resp.headers) = Others(Returned.resp.headers)]_vars

C9_Witness ==
    /\ phase = "done"
    /\ layers = <<[kind |-> "Accepted"]>>
    /\ InnerOk
    /\ Len(Unwrap(inner).resp.headers) = 3
    /\ Unwrap(inner).resp.status = Some(200)
    /\ Returned.resp.headers = Unwrap(inner).resp.headers
    /\ Returned.resp.body = Some("body")
    /\ Returned.resp.status = Some(202)

\* C10: in the Hash impl of Created with a nested value, the value is hashed
\* before its respond() is called, respond() is called exactly once, and the
\* hash has been taken also when respond() fails.
C10_HashBeforeRespond ==
    /\ (Len(layers) > 0 /\ layers[Len(layers)].kind = "Created"
          /\ term.kind = "leaf" /\ term.hashable) =>
           /\ calls \in {<<>>, <<"hash">>, <<"hash", "respond">>}
           /\ (inner # None => calls = <<"hash", "respond">>)
           /\ (frames # <<>> /\ Len(frames) = Len(layers)) => calls # <<>>
    /\ Cardinality({i \in 1..Len(calls) : calls[i] = "respond"}) <= 1
    /\ (phase = "done" /\ term.kind = "leaf") =>
           Cardinality({i \in 1..Len(calls) : calls[i] = "respond"}) = 1

C10_Witness ==
    /\ phase = "done"
    /\ layers = <<[kind |-> "Created", loc |-> "/a"]>>
    /\ term.kind = "leaf"
    /\ term.hashable
    /\ InnerErr
    /\ calls = <<"hash", "respond">>
====
